---- MODULE Spec2Model ----
(***************************************************************************)
(* A model of simple-sat-solver-rs: main (src/src/main.rs) reads a DIMACS  *)
(* file, Formula::parse_dimacs builds the Formula, Formula::solve runs the *)
(* recursive dpll over one Assignment, and the result is printed through   *)
(* Display for Assignment (src/src/solver.rs).                             *)
(*                                                                         *)
(* The recursion of dpll is modelled by an explicit stack of frames; a     *)
(* frame records where its invocation stands (entered, first recursive     *)
(* call made, second recursive call made) and its local `next`.            *)
(* Option<T> is a sequence: <<>> is None, <<v>> is Some(v).                *)
(* A Rust index out of bounds is a panic: pc = "panic".                    *)
(***************************************************************************)
EXTENDS Integers, Sequences, FiniteSets, TLC

VARIABLES
    pc,           \* where main stands
    header,       \* the problem line as read: its format and two arguments
    num_vars,     \* Formula.num_vars
    num_clauses,  \* parse_dimacs: num_clauses
    formula,      \* Formula.formula: a sequence of sequences of Literals
    clause,       \* parse_dimacs: index (from 0) of the clause being filled
    ntokens,      \* number of tokens read after the problem line
    eof,          \* parse_dimacs has read the whole input
    err,          \* the Err(String) of parse_dimacs, "" when none
    assignment,   \* solve: the Assignment [assignment, num_assigned]
    stack,        \* the frames of dpll, the innermost last
    ret,          \* the value the last finished dpll invocation returned
    result,       \* what solve returned: <<>> is None, <<a>> is Some(a)
    output,       \* what main printed, as a sequence of string pieces
    run,          \* which call of solve this is (1 or 2)
    first,        \* what the first call of solve returned (None before)
    ops,          \* the calls of assign and un_assign the last step of dpll made,
                  \* in order, each with the literal passed and the polarity
                  \* recorded for its variable when the call was made
    probe         \* a call of next_literal outside dpll: <<>> before it, then
                  \* <<[self, returned]>>, the Assignment and the literal returned

vars == <<pc, header, num_vars, num_clauses, formula, clause, ntokens, eof, err,
          assignment, stack, ret, result, output, run, first, ops, probe>>

parseVars == <<header, num_vars, num_clauses, formula, clause, ntokens, eof, err>>
solveVars == <<assignment, stack, ret, result>>

----------------------------------------------------------------------------
(* Bounds of the model *)

MaxNumVars == 2
MaxClauses == 2
MaxTokens == 4

\* Tokens of the input after the problem line, each as v.parse::<i32>() reads
\* it: <<n>> for a token that parses as n, <<>> for a token that does not.  The
\* numbers are the terminator 0 and the literals of variables 1..MaxNumVars+1
\* (one more than any num_vars may declare).
Tokens == {<<n>> : n \in (-(MaxNumVars + 1))..(MaxNumVars + 1)} \cup {<<>>}

----------------------------------------------------------------------------
(* Literal *)

Abs(x) == IF x < 0 THEN -x ELSE x

LiteralNew(var) == [var_id |-> Abs(var), negated |-> var < 0]

\* a variant that leaves the polarity as it is
Not_identity(lit) == [var_id |-> lit.var_id, negated |-> lit.negated]

Not(lit) == [var_id |-> lit.var_id, negated |-> ~lit.negated]

NoLiteral == [var_id |-> 0, negated |-> FALSE]

----------------------------------------------------------------------------
(* Assignment *)

None == <<>>
Some(v) == <<v>>

AssignmentNew(n) ==
    [assignment |-> [i \in 0..n |-> None], num_assigned |-> 0]

\* self.assignment[lit.var_id] is inside the Vec
InBounds(a, lit) == lit.var_id \in DOMAIN a.assignment

\* a variant that asks only whether the variable is assigned at all
is_assigned_any_polarity(a, lit) == a.assignment[lit.var_id] # None

is_assigned(a, lit) == Some(lit.negated) = a.assignment[lit.var_id]

\* a variant that takes an unassigned variable for a falsified literal
is_not_negated_strict(a, lit) == Some(lit.negated) = a.assignment[lit.var_id]

is_not_negated(a, lit) == Some(~lit.negated) # a.assignment[lit.var_id]

\* a variant that counts the variables from 0
next_literal_from_zero(a) == [var_id |-> a.num_assigned, negated |-> FALSE]

\* a variant that returns the negated literal
next_literal_negated_first(a) == [var_id |-> a.num_assigned + 1, negated |-> TRUE]

next_literal(a) == [var_id |-> a.num_assigned + 1, negated |-> FALSE]

\* a variant that forgets num_assigned += 1
assign_no_count(a, lit) ==
    [assignment |-> [a.assignment EXCEPT ![lit.var_id] = Some(lit.negated)],
     num_assigned |-> a.num_assigned]

assign(a, lit) ==
    [assignment |-> [a.assignment EXCEPT ![lit.var_id] = Some(lit.negated)],
     num_assigned |-> a.num_assigned + 1]

\* a variant that forgets num_assigned -= 1
un_assign_no_count(a, lit) ==
    [assignment |-> [a.assignment EXCEPT ![lit.var_id] = None],
     num_assigned |-> a.num_assigned]

\* a variant that forgets to clear the recorded polarity
un_assign_keeps_polarity(a, lit) ==
    [assignment |-> a.assignment,
     num_assigned |-> a.num_assigned - 1]

un_assign(a, lit) ==
    [assignment |-> [a.assignment EXCEPT ![lit.var_id] = None],
     num_assigned |-> a.num_assigned - 1]

----------------------------------------------------------------------------
(* Formula::solved and Formula::unsolvable.  Both walk the clauses in      *)
(* order and each clause's literals in order, and stop at the first        *)
(* literal that decides the clause; a literal whose var_id is outside the  *)
(* Assignment's Vec panics when it is reached.                             *)

\* a variant for which a clause without literals counts as satisfied
RECURSIVE solved_lits_vacuous(_, _, _)
solved_lits_vacuous(a, d, j) ==
    IF j > Len(d) THEN (IF Len(d) = 0 THEN "hit" ELSE "miss")
    ELSE IF ~InBounds(a, d[j]) THEN "panic"
    ELSE IF is_assigned(a, d[j]) THEN "hit"
    ELSE solved_lits_vacuous(a, d, j + 1)

RECURSIVE solved_lits(_, _, _)
solved_lits(a, d, j) ==
    IF j > Len(d) THEN "miss"
    ELSE IF ~InBounds(a, d[j]) THEN "panic"
    ELSE IF is_assigned(a, d[j]) THEN "hit"
    ELSE solved_lits(a, d, j + 1)

RECURSIVE solved_from(_, _, _)
solved_from(f, a, i) ==
    IF i > Len(f) THEN "true"
    ELSE LET r == solved_lits(a, f[i], 1)
         IN  IF r = "hit" THEN solved_from(f, a, i + 1)
             ELSE IF r = "miss" THEN "false"
             ELSE "panic"

solved(f, a) == solved_from(f, a, 1)

\* a variant that decides a clause by its first literal alone
unsolvable_lits_first_only(a, d, j) ==
    IF j > Len(d) THEN "miss"
    ELSE IF ~InBounds(a, d[j]) THEN "panic"
    ELSE IF is_not_negated(a, d[j]) THEN "hit"
    ELSE "miss"

RECURSIVE unsolvable_lits(_, _, _)
unsolvable_lits(a, d, j) ==
    IF j > Len(d) THEN "miss"
    ELSE IF ~InBounds(a, d[j]) THEN "panic"
    ELSE IF is_not_negated(a, d[j]) THEN "hit"
    ELSE unsolvable_lits(a, d, j + 1)

RECURSIVE unsolvable_from(_, _, _)
unsolvable_from(f, a, i) ==
    IF i > Len(f) THEN "false"
    ELSE LET r == unsolvable_lits(a, f[i], 1)
         IN  IF r = "hit" THEN unsolvable_from(f, a, i + 1)
             ELSE IF r = "miss" THEN "true"
             ELSE "panic"

unsolvable(f, a) == unsolvable_from(f, a, 1)

----------------------------------------------------------------------------
(* Display for Assignment: the pieces written, in order *)

RECURSIVE fmt_from(_, _)
fmt_from(a, var_id) ==
    IF var_id > Len(a) THEN <<"0">>
    ELSE (IF a[var_id] = None
             THEN <<ToString(var_id), " ", "UNASSIGNED">>
          ELSE IF a[var_id] = Some(TRUE)
             THEN <<"-", ToString(var_id), " ">>
          ELSE <<ToString(var_id), " ">>)
         \o fmt_from(a, var_id + 1)

\* a is the Vec without its element 0 (skip(1)), as a sequence
fmt(a) == fmt_from([i \in 1..(Cardinality(DOMAIN a.assignment) - 1) |-> a.assignment[i]], 1)

----------------------------------------------------------------------------
(* Formula::parse_dimacs *)

NoHeader == [format |-> "", num_vars |-> -1, num_clauses |-> -1]

\* a variant that checks num_vars only
IllegalCounts_vars_only(nv, nc) == nv = 0

\* if num_vars == 0 || num_clauses == 0 { return Err("Illegal problem line") }
IllegalCounts(nv, nc) == nv = 0 \/ nc = 0

Init ==
    /\ pc = "start"
    /\ header = NoHeader
    /\ num_vars = 0
    /\ num_clauses = 0
    /\ formula = <<>>
    /\ clause = 0
    /\ ntokens = 0
    /\ eof = FALSE
    /\ err = ""
    /\ assignment = AssignmentNew(0)
    /\ stack = <<>>
    /\ ret = "none"
    /\ result = None
    /\ output = <<>>
    /\ run = 1
    /\ first = None
    /\ ops = <<>>
    /\ probe = None

(* parse_dimacs, the problem line.  A negative number stands for an         *)
(* argument that does not parse as usize.                                   *)
ParseProblemLine ==
    /\ UNCHANGED ops
    /\ pc = "start"
    /\ \E format \in {"cnf", "dnf"}, nv \in (-1)..MaxNumVars, nc \in (-1)..MaxClauses :
        /\ header' = [format |-> format, num_vars |-> nv, num_clauses |-> nc]
        /\ IF format # "cnf"
              THEN /\ err' = "Illegal problem line"
                   /\ pc' = "err"
                   /\ UNCHANGED <<num_vars, num_clauses, formula>>
           ELSE IF nv < 0
              THEN /\ err' = "2nd argument in problem line not valid"
                   /\ pc' = "err"
                   /\ UNCHANGED <<num_vars, num_clauses, formula>>
           ELSE IF nc < 0
              THEN /\ err' = "3rd argument in problem line not valid"
                   /\ pc' = "err"
                   /\ num_vars' = nv
                   /\ UNCHANGED <<num_clauses, formula>>
           ELSE IF IllegalCounts(nv, nc)
              THEN /\ err' = "Illegal problem line"
                   /\ pc' = "err"
                   /\ num_vars' = nv
                   /\ num_clauses' = nc
                   /\ UNCHANGED formula
           ELSE /\ num_vars' = nv
                /\ num_clauses' = nc
                /\ formula' = [i \in 1..nc |-> <<>>]
                /\ err' = ""
                /\ pc' = "vars"
    /\ UNCHANGED <<clause, ntokens, eof, solveVars, output, run, first, probe>>

(* parse_dimacs, one token of the clause list *)
ParseVar ==
    /\ UNCHANGED ops
    /\ pc = "vars"
    /\ ntokens < MaxTokens
    /\ \E var \in Tokens :
        IF var = <<>>
           THEN /\ err' = "Illegal variable"
                /\ pc' = "err"
                /\ UNCHANGED <<formula, clause>>
        ELSE IF var[1] = 0
           THEN /\ clause' = clause + 1
                /\ UNCHANGED <<formula, err, pc>>
        ELSE IF clause >= Len(formula)
           THEN /\ err' = "Too many clauses"
                /\ pc' = "err"
                /\ UNCHANGED <<formula, clause>>
        ELSE /\ formula' = [formula EXCEPT ![clause + 1] = Append(@, LiteralNew(var[1]))]
             /\ UNCHANGED <<clause, err, pc>>
    /\ ntokens' = ntokens + 1
    /\ UNCHANGED <<header, num_vars, num_clauses, eof, solveVars, output, run, first, probe>>

(* parse_dimacs, after the last token *)
ParseEnd ==
    /\ UNCHANGED ops
    /\ pc = "vars"
    /\ eof' = TRUE
    /\ IF clause # num_clauses
          THEN /\ err' = "Too few clauses"
               /\ pc' = "err"
          ELSE /\ pc' = "parsed"
               /\ UNCHANGED err
    /\ UNCHANGED <<header, num_vars, num_clauses, formula, clause, ntokens,
                   solveVars, output, run, first, probe>>

----------------------------------------------------------------------------
(* Formula::solve *)

\* a call of assign or un_assign: the literal passed and the polarity recorded
\* for its variable in the Assignment a the call is made on
Call(op, lit, a) == [op |-> op, lit |-> lit, before |-> a.assignment[lit.var_id]]

\* entry is the Assignment the invocation was entered with
Frame(at, next, entry) == [at |-> at, next |-> next, entry |-> entry]

Top == stack[Len(stack)]

Pop == SubSeq(stack, 1, Len(stack) - 1)

\* the frame on top moves to `at`, and the frame of a recursive call, entered
\* with the Assignment a, is pushed
Descend(at, next, a) ==
    Append([stack EXCEPT ![Len(stack)] = Frame(at, next, @.entry)],
           Frame("enter", NoLiteral, a))

(* solve: let mut assignment = Assignment::new(self.num_vars); dpll(self, ..) *)
SolveStart ==
    /\ ops' = <<>>
    /\ pc = "parsed"
    /\ assignment' = AssignmentNew(num_vars)
    /\ stack' = <<Frame("enter", NoLiteral, AssignmentNew(num_vars))>>
    /\ ret' = "none"
    /\ pc' = "dpll"
    /\ UNCHANGED <<parseVars, result, output, run, first, probe>>

AtEnter == pc = "dpll" /\ stack # <<>> /\ Top.at = "enter"

(* dpll: if formula.solved(&assignment) { true } *)
DpllSolved ==
    /\ ops' = <<>>
    /\ AtEnter
    /\ solved(formula, assignment) = "true"
    /\ stack' = Pop
    /\ ret' = "true"
    /\ UNCHANGED <<pc, parseVars, assignment, result, output, run, first, probe>>

(* dpll: else if formula.unsolvable(&assignment) { false } *)
DpllUnsolvable ==
    /\ ops' = <<>>
    /\ AtEnter
    /\ solved(formula, assignment) = "false"
    /\ unsolvable(formula, assignment) = "true"
    /\ stack' = Pop
    /\ ret' = "false"
    /\ UNCHANGED <<pc, parseVars, assignment, result, output, run, first, probe>>

(* dpll: solved or unsolvable indexes the Assignment out of bounds *)
DpllIndexPanic ==
    /\ ops' = <<>>
    /\ AtEnter
    /\ \/ solved(formula, assignment) = "panic"
       \/ /\ solved(formula, assignment) = "false"
          /\ unsolvable(formula, assignment) = "panic"
    /\ pc' = "panic"
    /\ UNCHANGED <<parseVars, solveVars, output, run, first, probe>>

\* a variant that branches on any unassigned variable, in no fixed order
DpllBranch_any_variable ==
    /\ AtEnter
    /\ ops' = <<>>
    /\ solved(formula, assignment) = "false"
    /\ unsolvable(formula, assignment) = "false"
    /\ \E v \in 1..num_vars :
        /\ assignment.assignment[v] = None
        /\ LET next == [var_id |-> v, negated |-> FALSE]
           IN  /\ assignment' = assign(assignment, next)
               /\ stack' = Descend("first", next, assignment')
    /\ UNCHANGED <<pc, parseVars, ret, result, output, run, first, probe>>

(* dpll: else { let next = assignment.next_literal(); assignment.assign(next); *)
(*              if dpll(formula, assignment) ...                               *)
(* assign indexes the Vec with next.var_id and panics when it is outside.      *)
DpllBranch ==
    /\ AtEnter
    /\ solved(formula, assignment) = "false"
    /\ unsolvable(formula, assignment) = "false"
    /\ LET next == next_literal(assignment)
       IN  IF InBounds(assignment, next)
              THEN /\ assignment' = assign(assignment, next)
                   /\ ops' = <<Call("assign", next, assignment)>>
                   /\ stack' = Descend("first", next, assignment')
                   /\ pc' = pc
              ELSE /\ pc' = "panic"
                   /\ ops' = <<>>
                   /\ UNCHANGED <<assignment, stack>>
    /\ UNCHANGED <<parseVars, ret, result, output, run, first, probe>>

\* a variant that assigns !next without un-assigning next first
DpllFirstReturned_no_un_assign ==
    /\ pc = "dpll" /\ stack # <<>> /\ Top.at = "first"
    /\ IF ret = "true"
          THEN /\ stack' = Pop
               /\ ops' = <<>>
               /\ UNCHANGED <<assignment, ret>>
          ELSE /\ assignment' = assign(assignment, Not(Top.next))
               /\ ops' = <<Call("assign", Not(Top.next), assignment)>>
               /\ stack' = Descend("second", Top.next, assignment')
               /\ ret' = "none"
    /\ UNCHANGED <<pc, parseVars, result, output, run, first, probe>>

(* dpll: the first recursive call returned: true, or un_assign(next),      *)
(* assign(!next) and the second recursive call                             *)
DpllFirstReturned ==
    /\ pc = "dpll" /\ stack # <<>> /\ Top.at = "first"
    /\ IF ret = "true"
          THEN /\ stack' = Pop
               /\ ops' = <<>>
               /\ UNCHANGED <<assignment, ret>>
          ELSE /\ assignment' = assign(un_assign(assignment, Top.next), Not(Top.next))
               /\ ops' = <<Call("un_assign", Top.next, assignment),
                           Call("assign", Not(Top.next), un_assign(assignment, Top.next))>>
               /\ stack' = Descend("second", Top.next, assignment')
               /\ ret' = "none"
    /\ UNCHANGED <<pc, parseVars, result, output, run, first, probe>>

(* dpll: the second recursive call returned: true, or un_assign(next) and  *)
(* false                                                                   *)
DpllSecondReturned ==
    /\ pc = "dpll" /\ stack # <<>> /\ Top.at = "second"
    /\ IF ret = "true"
          THEN /\ stack' = Pop
               /\ ops' = <<>>
               /\ UNCHANGED <<assignment, ret>>
          ELSE /\ assignment' = un_assign(assignment, Top.next)
               /\ ops' = <<Call("un_assign", Top.next, assignment)>>
               /\ stack' = Pop
               /\ ret' = "false"
    /\ UNCHANGED <<pc, parseVars, result, output, run, first, probe>>

(* solve: if dpll(self, &mut assignment) { Some(assignment) } else { None } *)
SolveReturn ==
    /\ UNCHANGED ops
    /\ pc = "dpll"
    /\ stack = <<>>
    /\ result' = IF ret = "true" THEN Some(assignment) ELSE None
    /\ pc' = "solved"
    /\ UNCHANGED <<parseVars, assignment, stack, ret, output, run, first, probe>>

(* main: match formula.solve() { Some(a) => println!("{}", a),             *)
(*                               None => println!("UNSATISFIABLE") }       *)
MainReport ==
    /\ UNCHANGED ops
    /\ pc = "solved"
    /\ output' = IF result = None THEN <<"UNSATISFIABLE">> ELSE fmt(result[1])
    /\ pc' = "done"
    /\ UNCHANGED <<parseVars, solveVars, run, first, probe>>

(* a second call of solve on the same Formula *)
SolveAgain ==
    /\ ops' = <<>>
    /\ pc = "solved"
    /\ run = 1
    /\ run' = 2
    /\ first' = result
    /\ assignment' = AssignmentNew(num_vars)
    /\ stack' = <<Frame("enter", NoLiteral, AssignmentNew(num_vars))>>
    /\ ret' = "none"
    /\ result' = None
    /\ pc' = "dpll"
    /\ UNCHANGED <<parseVars, output, probe>>

Next ==
    \/ ParseProblemLine
    \/ ParseVar
    \/ ParseEnd
    \/ SolveStart
    \/ DpllSolved
    \/ DpllUnsolvable
    \/ DpllIndexPanic
    \/ DpllBranch
    \/ DpllFirstReturned
    \/ DpllSecondReturned
    \/ SolveReturn
    \/ MainReport

Spec == Init /\ [][Next]_vars

\* main is one sequential thread: it keeps running until it exits
FairSpec == Spec /\ WF_vars(Next)

\* a call of next_literal on the Assignment as it stands, outside dpll
ProbeNextLiteral ==
    /\ pc = "dpll"
    /\ probe = None
    /\ probe' = Some([self |-> assignment, returned |-> next_literal(assignment)])
    /\ UNCHANGED <<pc, parseVars, solveVars, output, run, first, ops>>

\* a caller that calls next_literal wherever dpll stands
NextProbe == Next \/ ProbeNextLiteral

SpecProbe == Init /\ [][NextProbe]_vars

\* a caller that calls solve twice on the Formula it parsed
NextRepeat == Next \/ SolveAgain

SpecRepeat == Init /\ [][NextRepeat]_vars

----------------------------------------------------------------------------
(* Properties *)

\* every Literal of every Clause has its var_id in 1..num_vars
WellFormed ==
    \A i \in 1..Len(formula) : \A j \in 1..Len(formula[i]) :
        formula[i][j].var_id \in 1..num_vars

\* solve has returned
Returned == pc \in {"solved", "done"}

\* the clause d has a literal whose polarity is the one a records for its variable
ClauseSatisfied(d, a) ==
    \E j \in 1..Len(d) : a.assignment[d[j].var_id] = <<d[j].negated>>

\* the total assignments of the variables 1..num_vars: t[v] is the truth value of v
TotalAssignments == [1..num_vars -> BOOLEAN]

\* the total assignment t makes the clause d true
ClauseTrueUnder(d, t) == \E j \in 1..Len(d) : t[d[j].var_id] = ~d[j].negated

BruteForceSat == \E t \in TotalAssignments :
    \A i \in 1..Len(formula) : ClauseTrueUnder(formula[i], t)

\* C1 (soundness): when solve returns Some(assignment) on a well-formed Formula,
\* every clause has a literal whose polarity equals the polarity the returned
\* assignment records for its variable.
C1_Soundness ==
    (Returned /\ result # None /\ WellFormed)
        => \A i \in 1..Len(formula) : ClauseSatisfied(formula[i], result[1])

\* a satisfying assignment of two clauses over two variables that was found
\* only after backtracking on variable 1
C1_Witness ==
    /\ Returned /\ result # None /\ WellFormed
    /\ num_vars = 2 /\ Len(formula) = 2
    /\ formula[1] # <<>> /\ formula[2] # <<>>
    /\ result[1].assignment[1] = Some(TRUE)

\* C2 (completeness): when solve returns None on a well-formed Formula, none of
\* the 2^num_vars total assignments makes every clause true.
C2_Completeness ==
    (Returned /\ result = None /\ WellFormed) => ~BruteForceSat

\* None returned for a formula over two variables without an empty clause
C2_Witness ==
    /\ Returned /\ result = None /\ WellFormed
    /\ num_vars = 2
    /\ \A i \in 1..Len(formula) : formula[i] # <<>>

\* the frames of dpll were entered with strictly more assigned variables the
\* deeper they are, never more than num_vars, so below the outermost invocation
\* there are at most num_vars nested ones
DescentBounded ==
    /\ \A k \in 1..Len(stack) : stack[k].entry.num_assigned <= num_vars
    /\ \A k \in 2..Len(stack) :
          stack[k].entry.num_assigned > stack[k - 1].entry.num_assigned
    /\ Len(stack) - 1 <= num_vars
    /\ assignment.num_assigned <= num_vars

\* C3 (termination): on a well-formed Formula each recursive descent of dpll
\* strictly increases the number of assigned variables, which never exceeds
\* num_vars (so the recursion is at most num_vars deep), and solve eventually
\* returns Some or None.
C3_Termination ==
    /\ []((pc = "dpll" /\ WellFormed) => DescentBounded)
    /\ ((pc = "parsed" /\ WellFormed) ~> (pc = "solved"))

\* the recursion at its greatest depth, every variable assigned
C3_Witness ==
    /\ pc = "dpll" /\ WellFormed
    /\ num_vars = 2
    /\ Len(stack) = 3
    /\ stack[3].entry.num_assigned = 2

\* dpll is about to call next_literal: neither solved nor unsolvable
CallsNextLiteral ==
    /\ AtEnter
    /\ solved(formula, assignment) = "false"
    /\ unsolvable(formula, assignment) = "false"

\* C4: on a well-formed Formula next_literal is only called while a variable is
\* unassigned (num_assigned < num_vars), and the variable it selects, which
\* assign then indexes, is one of 1..num_vars.
C4_NextLiteralSafe ==
    /\ (CallsNextLiteral /\ WellFormed)
          => /\ assignment.num_assigned < num_vars
             /\ next_literal(assignment).var_id \in 1..num_vars
             /\ \E v \in 1..num_vars : assignment.assignment[v] = None
    /\ WellFormed => pc # "panic"

\* next_literal called one level down, where one variable is left
C4_Witness ==
    /\ CallsNextLiteral /\ WellFormed
    /\ num_vars = 2
    /\ assignment.num_assigned = 1

----------------------------------------------------------------------------
\* parse_dimacs returned Ok(formula)
ParsedOk == pc \in {"parsed", "dpll", "solved", "done", "panic"}

\* C5: every Formula for which parse_dimacs returns Ok has every literal's
\* variable id in 1..num_vars, so solved and unsolvable never index the
\* Assignment out of range.
C5_ParsedFormulaWellFormed ==
    /\ ParsedOk => WellFormed
    /\ pc # "panic"

HasEmptyClause == \E i \in 1..Len(formula) : formula[i] = <<>>

\* every Assignment over the variables 1..num_vars
AllAssignments ==
    {[assignment |-> [i \in 0..num_vars |-> IF i = 0 THEN None ELSE m[i]],
      num_assigned |-> 0] :
        m \in [1..num_vars -> {None, Some(TRUE), Some(FALSE)}]}

\* C6: a Formula with an empty clause is UNSAT: no Assignment makes solved
\* hold, solve never returns Some, and (the Formula being well-formed) it does
\* not panic either, whatever the other clauses and num_vars are.
C6_EmptyClauseUnsat ==
    /\ (ParsedOk /\ HasEmptyClause)
          => /\ \A a \in AllAssignments : solved(formula, a) # "true"
             /\ pc = "dpll" => solved(formula, assignment) # "true"
             /\ Returned => result = None
    /\ (ParsedOk /\ HasEmptyClause /\ WellFormed) => pc # "panic"

\* None returned for a formula of an empty clause and a satisfiable one
C6_Witness ==
    /\ Returned /\ result = None
    /\ HasEmptyClause /\ WellFormed
    /\ Len(formula) = 2
    /\ formula[1] # <<>>

\* the problem line declares a formula of no clause over some variables
ZeroClauses ==
    /\ header.format = "cnf"
    /\ header.num_vars >= 1
    /\ header.num_clauses = 0

RECURSIVE words_from(_, _, _)
words_from(out, i, cur) ==
    IF i > Len(out) THEN (IF cur = <<>> THEN <<>> ELSE <<cur>>)
    ELSE IF out[i] = " "
       THEN (IF cur = <<>> THEN <<>> ELSE <<cur>>) \o words_from(out, i + 1, <<>>)
    ELSE words_from(out, i + 1, Append(cur, out[i]))

Words(out) == words_from(out, 1, <<>>)

\* one token per variable in ascending order, then the terminator token 0
ExpectedTokens(a) ==
    [v \in 1..num_vars |->
        IF a.assignment[v] = None THEN <<"UNASSIGNED">>
        ELSE IF a.assignment[v] = Some(TRUE) THEN <<"-", ToString(v)>>
        ELSE <<ToString(v)>>]
    \o <<(<<"0">>)>>

\* C8: the output of a successful run is one whitespace-separated token per
\* variable in ascending id order (the id, with '-' when negated, or an
\* UNASSIGNED marker) followed by a separate terminator token 0.
C8_OutputTokens ==
    (pc = "done" /\ result # None) => Words(output) = ExpectedTokens(result[1])

\* C9: once the whole token sequence is read, fewer 0-terminated clauses than
\* declared give the error "Too few clauses" and more than declared give the
\* error "Too many clauses".
C9_ClauseCountErrors ==
    /\ (eof /\ clause < num_clauses) => (pc = "err" /\ err = "Too few clauses")
    /\ (eof /\ clause > num_clauses) => (pc = "err" /\ err = "Too many clauses")

----------------------------------------------------------------------------
\* a step in which the innermost invocation of dpll returns false
ReturnsFalse ==
    /\ pc = "dpll"
    /\ stack # <<>>
    /\ stack' = Pop
    /\ ret' = "false"

FullyUnassigned(a) ==
    /\ a.num_assigned = 0
    /\ \A v \in DOMAIN a.assignment : a.assignment[v] = None

\* C11: whenever an invocation of dpll returns false, the Assignment (every
\* variable's recorded polarity and num_assigned) is what it was when that
\* invocation was entered; so when solve reports UNSAT the Assignment is fully
\* unassigned again.
C11_BacktrackRestores ==
    /\ [][ReturnsFalse => assignment' = Top.entry]_vars
    /\ []((Returned /\ result = None) => FullyUnassigned(assignment))

\* UNSAT reported after the outermost invocation tried both polarities of
\* variable 1 and un-assigned it
C11_Witness ==
    /\ pc = "solved" /\ result = None
    /\ num_vars = 2
    /\ ops # <<>>
    /\ ops[1].op = "un_assign"
    /\ ops[1].lit.var_id = 1

\* the variables with a recorded polarity
AssignedVars(a) == {v \in DOMAIN a.assignment : a.assignment[v] # None}

\* C12: in every state of solve num_assigned is the number of variables that
\* have a recorded polarity, and a variable has at most one recorded polarity.
C12_CountConsistent ==
    (pc \in {"dpll", "solved", "done", "panic"})
        => /\ assignment.num_assigned = Cardinality(AssignedVars(assignment))
           /\ \A v \in DOMAIN assignment.assignment :
                 assignment.assignment[v] \in {None, Some(TRUE), Some(FALSE)}
           /\ DOMAIN assignment.assignment = 0..num_vars

\* both variables assigned, each after its first polarity had failed
C12_Witness ==
    /\ pc = "dpll"
    /\ num_vars = 2
    /\ assignment.num_assigned = 2
    /\ assignment.assignment[1] = Some(TRUE)
    /\ assignment.assignment[2] = Some(TRUE)

----------------------------------------------------------------------------
\* a scan for the first variable without a recorded polarity
HasUnassigned(a) == \E v \in 1..num_vars : a.assignment[v] = None

LowestUnassigned(a) ==
    CHOOSE v \in 1..num_vars :
        /\ a.assignment[v] = None
        /\ \A u \in 1..(v - 1) : a.assignment[u] # None

\* C13: wherever dpll calls next_literal, the literal returned is non-negated
\* and its variable is the lowest-id variable without a recorded polarity: the
\* counter-based choice num_assigned + 1 coincides with the scan.
C13_NextLiteralIsLowestUnassigned ==
    CallsNextLiteral
        => /\ HasUnassigned(assignment)
           /\ next_literal(assignment).var_id = LowestUnassigned(assignment)
           /\ next_literal(assignment).negated = FALSE

\* next_literal called for variable 2 after variable 1 was backtracked to its
\* negated polarity
C13_Witness ==
    /\ CallsNextLiteral
    /\ num_vars = 2
    /\ assignment.assignment[1] = Some(TRUE)
    /\ assignment.assignment[2] = None

\* C14: every call assign(lit) made during solve happens while lit's variable
\* has no recorded polarity.
C14_AssignOnUnassigned ==
    \A i \in 1..Len(ops) : ops[i].op = "assign" => ops[i].before = None

\* assign(!next) called for variable 2, right after un_assign(next)
C14_Witness ==
    /\ pc = "dpll"
    /\ Len(ops) = 2
    /\ ops[2].op = "assign"
    /\ ops[2].lit = [var_id |-> 2, negated |-> TRUE]

----------------------------------------------------------------------------
DpllStep == pc = "dpll" /\ stack # <<>> /\ stack' # stack

\* C16 (branch ordering): a branch node first assigns its variable the
\* non-negated polarity; the negated polarity is assigned only after the first
\* subtree returned false and the variable was un-assigned; and the node
\* returns false only after the second subtree returned false too and the
\* variable was un-assigned.
C16_BranchOrdering ==
    [][DpllStep =>
        /\ (Top.at = "enter" /\ Len(stack') > Len(stack))
              => /\ Len(ops') = 1
                 /\ ops'[1].op = "assign"
                 /\ ops'[1].lit.negated = FALSE
                 /\ assignment'.assignment[ops'[1].lit.var_id] = Some(FALSE)
                 /\ stack'[Len(stack)].at = "first"
        /\ (\E i \in 1..Len(ops') : ops'[i].op = "assign" /\ ops'[i].lit.negated)
              => /\ Top.at = "first" /\ ret = "false"
                 /\ Len(ops') = 2
                 /\ ops'[1].op = "un_assign"
                 /\ ops'[1].lit.var_id = Top.next.var_id
                 /\ ops'[1].before = Some(FALSE)
                 /\ ops'[2].op = "assign"
                 /\ ops'[2].lit.var_id = Top.next.var_id
                 /\ ops'[2].before = None
                 /\ assignment'.assignment[Top.next.var_id] = Some(TRUE)
        /\ (Len(stack') >= Len(stack) /\ stack'[Len(stack)].at = "second")
              => Top.at = "first" /\ ret = "false"
        /\ (ReturnsFalse /\ Top.at # "enter")
              => /\ Top.at = "second" /\ ret = "false"
                 /\ Len(ops') = 1
                 /\ ops'[1].op = "un_assign"
                 /\ ops'[1].lit.var_id = Top.next.var_id
                 /\ assignment'.assignment[Top.next.var_id] = None
    ]_vars

\* an inner branch node whose second subtree has just returned false
C16_Witness ==
    /\ pc = "dpll"
    /\ Len(stack) = 2
    /\ Top.at = "second"
    /\ ret = "false"

----------------------------------------------------------------------------
(* The search engine as the specification gives it (sections 4.1 to 4.3):   *)
(* solve(node) = UNSAT_local(node) ? false : SAT(node) ? true :             *)
(*   (assign(v); r = solve(child); if not r {un_assign(v); assign(!v);      *)
(*    r = solve(child); if not r {un_assign(!v)}}; r)                       *)

negate(lit) == [var_id |-> lit.var_id, negated |-> ~lit.negated]

fully_unassigned(n) == [assignment |-> [i \in 0..n |-> <<>>], num_assigned |-> 0]

is_satisfied(d, a) ==
    \E j \in 1..Len(d) : a.assignment[d[j].var_id] = <<d[j].negated>>

is_falsified(d, a) ==
    \A j \in 1..Len(d) :
        /\ a.assignment[d[j].var_id] # <<>>
        /\ a.assignment[d[j].var_id] # <<d[j].negated>>

SAT(f, a) == \A i \in 1..Len(f) : is_satisfied(f[i], a)

UNSAT_local(f, a) == \E i \in 1..Len(f) : is_falsified(f[i], a)

next_unassigned(a) ==
    [var_id |-> CHOOSE v \in (DOMAIN a.assignment) \ {0} :
                    /\ a.assignment[v] = <<>>
                    /\ \A u \in 1..(v - 1) : a.assignment[u] # <<>>,
     negated |-> FALSE]

spec_assign(a, lit) ==
    [assignment |-> [a.assignment EXCEPT ![lit.var_id] = <<lit.negated>>],
     num_assigned |-> a.num_assigned + 1]

spec_un_assign(a, lit) ==
    [assignment |-> [a.assignment EXCEPT ![lit.var_id] = <<>>],
     num_assigned |-> a.num_assigned - 1]

\* the verdict r and the Assignment a the call leaves behind
RECURSIVE spec_solve(_, _)
spec_solve(f, a) ==
    IF UNSAT_local(f, a) THEN [r |-> FALSE, a |-> a]
    ELSE IF SAT(f, a) THEN [r |-> TRUE, a |-> a]
    ELSE LET v == next_unassigned(a)
             r1 == spec_solve(f, spec_assign(a, v))
         IN  IF r1.r THEN r1
             ELSE LET r2 == spec_solve(f, spec_assign(spec_un_assign(r1.a, v), negate(v)))
                  IN  IF r2.r THEN r2
                      ELSE [r |-> FALSE, a |-> spec_un_assign(r2.a, negate(v))]

\* C17: dpll, which tests solved before unsolvable, ends with the verdict and
\* the Assignment of the specification's algorithm, which tests UNSAT_local
\* before SAT, on every well-formed Formula; and no node the search reaches has
\* all clauses satisfied and some clause falsified at once.
C17_SameAsSpecAlgorithm ==
    /\ (pc = "solved" /\ WellFormed)
          => LET s == spec_solve(formula, fully_unassigned(num_vars))
             IN  /\ (ret = "true") = s.r
                 /\ (result # None) = s.r
                 /\ assignment = s.a
    /\ (AtEnter /\ WellFormed)
          => ~(SAT(formula, assignment) /\ UNSAT_local(formula, assignment))

\* solve returned an assignment of both variables, found at a leaf of the search
C17_Witness ==
    /\ pc = "solved" /\ WellFormed
    /\ result # None
    /\ num_vars = 2
    /\ assignment.num_assigned = 2

----------------------------------------------------------------------------
\* the total assignments that make every clause true
SatisfyingTotals ==
    {t \in TotalAssignments : \A i \in 1..Len(formula) : ClauseTrueUnder(formula[i], t)}

\* lexicographic order, variable 1 most significant, true before false
LexBefore(t, u) ==
    \E j \in 1..num_vars :
        /\ \A i \in 1..(j - 1) : t[i] = u[i]
        /\ t[j] = TRUE
        /\ u[j] = FALSE

FirstSatisfying ==
    CHOOSE t \in SatisfyingTotals : \A u \in SatisfyingTotals : u = t \/ LexBefore(t, u)

\* the values t gives the variables 1..m make every clause true
PrefixSatisfies(t, m) ==
    \A i \in 1..Len(formula) : \E j \in 1..Len(formula[i]) :
        /\ formula[i][j].var_id <= m
        /\ t[formula[i][j].var_id] = ~formula[i][j].negated

\* C18: when solve returns Some(assignment) on a well-formed Formula, the
\* assigned variables are a prefix 1..k of the ids, their polarities are those
\* of the lexicographically first satisfying total assignment, that prefix
\* satisfies every clause and no shorter prefix does.
C18_ShortestPrefixOfFirstModel ==
    (Returned /\ result # None /\ WellFormed)
        => LET a == result[1]
               k == a.num_assigned
               t == FirstSatisfying
           IN  /\ SatisfyingTotals # {}
               /\ \A v \in 1..num_vars :
                     /\ v <= k => a.assignment[v] = Some(~t[v])
                     /\ v > k => a.assignment[v] = None
               /\ PrefixSatisfies(t, k)
               /\ \A m \in 0..(k - 1) : ~PrefixSatisfies(t, m)

\* variable 1 was backtracked to false and variable 2 was left unassigned
C18_Witness ==
    /\ Returned /\ result # None /\ WellFormed
    /\ num_vars = 2
    /\ result[1].num_assigned = 1
    /\ result[1].assignment[1] = Some(TRUE)
    /\ result[1].assignment[2] = None

----------------------------------------------------------------------------
\* next_literal was called, outside dpll, on an Assignment in which no
\* unassigned variable remained
ProbedWhenFull == probe # None /\ ~HasUnassigned(probe[1].self)

\* C19: called on an Assignment in which no unassigned variable remains,
\* next_literal fails (signalling an internal invariant violation) rather than
\* returning a literal: no such call ever returns.
C19_NextLiteralFails == ~ProbedWhenFull

\* What the code does instead: next_literal has no failing path; called on an
\* Assignment in which no unassigned variable remains it returns the
\* non-negated literal of variable num_vars + 1, which lies outside the
\* Assignment, so that a failure arises only when that literal is used to index
\* it (in assign).
NextLiteralReturnsOutOfRange ==
    ProbedWhenFull
        => /\ probe[1].returned = [var_id |-> num_vars + 1, negated |-> FALSE]
           /\ ~InBounds(probe[1].self, probe[1].returned)
           /\ probe[1].self.num_assigned = num_vars

====
